---- MODULE Spec2Model ----
(***************************************************************************)
(* PlayerServer (src/poker/player_server.py): the adapter between the game *)
(* engine and one remote participant.  The engine calls one operation at a *)
(* time; an operation that waits for the participant is split at each      *)
(* recv_message() call, where the participant and the clock may move.      *)
(*                                                                         *)
(* Python values are modelled by tagged records, so that values of          *)
(* different Python types stay comparable:                                 *)
(*   a discard key   [t |-> "int" | "str", v |-> Int]                      *)
(*   a `cards` field [t |-> "absent" | "null" | "list", keys |-> Seq(key)] *)
(*   a `bet` field   [t |-> "absent" | "num" | "str" | "nan" | "text" |    *)
(*                          "null" | "list", v |-> Int]                    *)
(*   a float         [k |-> "num" | "nan", v |-> Int]                      *)
(***************************************************************************)
EXTENDS Integers, Sequences, FiniteSets, TLC

VARIABLES
    channel,          \* self._channel: the channel the adapter refers to
    closed,           \* channels on which close() has been called
    inbox,            \* per channel: messages sent by the participant, not yet received
    cards,            \* Player._cards: the participant's hand
    score,            \* Player._score
    allowed_to_open,  \* self._allowed_to_open
    money,            \* Player._money
    pc,               \* position of the engine's thread inside the adapter
    args,             \* arguments of the operation in progress
    result,           \* outcome of the last operation that ended
    oplog,            \* channel calls made by the current (or last) operation
    requests,         \* number of bet requests sent so far (numbers the turns)
    now               \* the clock, time.time()

vars == <<channel, closed, inbox, cards, score, allowed_to_open, money,
          pc, args, result, oplog, requests, now>>

----------------------------------------------------------------------------
(* Bounds of the model *)

HandSize == 5
MaxKeys == 5
MaxBet == 3
MaxPings == 2
MaxInbox == 2
MaxTurns == 2
MaxTime == 2
MaxScore == 1

(* Program constants *)

MaxDiscards == 4
FoldBet == -1
PingWait == 2

Channels == {1, 2}
NoDeadline == 0

----------------------------------------------------------------------------
(* Values *)

IntKey(n) == [t |-> "int", v |-> n]
StrKey == [t |-> "str", v |-> 0]

NoKeys == << >>
AbsentCards == [t |-> "absent", keys |-> NoKeys]
NullCards == [t |-> "null", keys |-> NoKeys]
ListCards(ks) == [t |-> "list", keys |-> ks]

AbsentBet == [t |-> "absent", v |-> 0]
NumBet(n) == [t |-> "num", v |-> n]
StrBet(n) == [t |-> "str", v |-> n]
NanBet == [t |-> "nan", v |-> 0]
TextBet == [t |-> "text", v |-> 0]
NullBet == [t |-> "null", v |-> 0]
ListBet == [t |-> "list", v |-> 0]

Num(n) == [k |-> "num", v |-> n]
NaN == [k |-> "nan", v |-> 0]

NoField == "<absent>"

\* An inbound message: a mapping with optional msg_id, bet and cards fields.
\* `re` is not a field of the message: it records which bet request the
\* participant was answering when it sent the message (0: none yet).
Message(id, b, c, r) == [msg_id |-> id, bet |-> b, cards |-> c, re |-> r]
PingMessage == Message("ping", AbsentBet, AbsentCards, 0)

----------------------------------------------------------------------------
(* Outcomes of an operation: a returned value or a raised error *)

NoOutcome ==
    [kind |-> "none", err |-> "", attr |-> "", desc |-> "",
     bet |-> Num(0), keys |-> NoKeys, cards |-> << >>, ok |-> FALSE]

Raise(e, a, d) ==
    [NoOutcome EXCEPT !.kind = "raise", !.err = e, !.attr = a, !.desc = d]

ReturnNone == [NoOutcome EXCEPT !.kind = "return"]
ReturnBool(b) == [NoOutcome EXCEPT !.kind = "return", !.ok = b]
ReturnBet(x) == [NoOutcome EXCEPT !.kind = "return", !.bet = x]
ReturnDiscards(ks, cs) ==
    [NoOutcome EXCEPT !.kind = "return", !.keys = ks, !.cards = cs]

MessageFormatError(a, d) == Raise("MessageFormatError", a, d)

\* MessageFormatError.validate_msg_id(message, expected): the message must
\* carry a msg_id, and it must be the expected one.
validate_msg_id(message, expected) ==
    IF message.msg_id = NoField
    THEN MessageFormatError("msg_id", "missing")
    ELSE IF message.msg_id # expected
         THEN MessageFormatError("msg_id", "unexpected")
         ELSE NoOutcome

----------------------------------------------------------------------------
(* change_cards: the discard keys of a change-cards message *)

RECURSIVE SortInts(_)
SortInts(S) ==
    IF S = {}
    THEN << >>
    ELSE LET m == CHOOSE x \in S : \A y \in S : x <= y
         IN  <<IntKey(m)>> \o SortInts(S \ {m})

Range(s) == {s[i] : i \in DOMAIN s}

\* A faulty variant of sorted_set: the keys as the participant sent them.
keys_as_sent(ks) ==
    [err |-> "", keys |-> ks]

\* sorted(set(discard_keys)): duplicates removed, ascending order.  Ordering
\* an int against a str is a TypeError; a lone str sorts as it is.
sorted_set(ks) ==
    LET ints == {k.v : k \in {x \in Range(ks) : x.t = "int"}}
        strs == {x \in Range(ks) : x.t # "int"}
    IN  IF strs # {} /\ ints # {}
        THEN [err |-> "TypeError", keys |-> NoKeys]
        ELSE IF strs # {}
             THEN [err |-> "", keys |-> <<StrKey>>]
             ELSE [err |-> "", keys |-> SortInts(ints)]

\* self._cards[key]: Python list indexing.  A key that is not an integer is
\* a TypeError; a key k with -len <= k < 0 is the element len + k; any other
\* key outside 0 .. len-1 is an IndexError.
getitem(hand, key) ==
    IF key.t # "int"
    THEN [err |-> "TypeError", card |-> 0]
    ELSE IF key.v >= 0 /\ key.v < Len(hand)
         THEN [err |-> "", card |-> hand[key.v + 1]]
         ELSE IF key.v < 0 /\ key.v >= -Len(hand)
              THEN [err |-> "", card |-> hand[Len(hand) + key.v + 1]]
              ELSE [err |-> "IndexError", card |-> 0]

\* Lines 56-67 of change_cards: the keys normalised, counted and resolved
\* against the hand.  Iterating None is a TypeError.
discards_of(hand, field) ==
    IF field.t = "null"
    THEN MessageFormatError("cards", "invalid")
    ELSE LET s == sorted_set(field.keys)
         IN  IF s.err # ""
             THEN MessageFormatError("cards", "invalid")
             ELSE IF Len(s.keys) > MaxDiscards
                  THEN MessageFormatError("cards", "too many")
                  ELSE IF \E i \in DOMAIN s.keys : getitem(hand, s.keys[i]).err # ""
                       THEN MessageFormatError("cards", "invalid")
                       ELSE ReturnDiscards(s.keys,
                                [i \in DOMAIN s.keys |-> getitem(hand, s.keys[i]).card])

\* Lines 51-67 of change_cards: what the first message that is not a ping
\* makes the operation return or raise.
change_cards_reply(hand, message) ==
    LET v == validate_msg_id(message, "change-cards")
    IN  IF v.kind = "raise"
        THEN v
        ELSE IF message.cards.t = "absent"
             THEN MessageFormatError("cards", "missing")
             ELSE discards_of(hand, message.cards)

----------------------------------------------------------------------------
(* bet: the bet field of a bet reply *)

\* float(message["bet"]): a number or a numeric string is its value, the
\* string "nan" is the NaN, any other string is a ValueError, None and a
\* list are a TypeError.
float(b) ==
    CASE b.t = "num" -> [err |-> "", val |-> Num(b.v)]
      [] b.t = "str" -> [err |-> "", val |-> Num(b.v)]
      [] b.t = "nan" -> [err |-> "", val |-> NaN]
      [] b.t = "text" -> [err |-> "ValueError", val |-> Num(0)]
      [] OTHER -> [err |-> "TypeError", val |-> Num(0)]

\* Comparisons of a float with a number: every comparison with NaN is false.
FloatEq(x, n) == x.k = "num" /\ x.v = n
FloatLt(x, n) == x.k = "num" /\ x.v < n
FloatGt(x, n) == x.k = "num" /\ x.v > n

\* Line 104: bet < min_bet or bet > max_bet.
out_of_range(x, min_bet, max_bet) ==
    FloatLt(x, min_bet) \/ FloatGt(x, max_bet)

\* A faulty variant of is_fold: no value is a fold.
never_fold(x) ==
    FALSE

\* Line 100: bet == -1.0.
is_fold(x) ==
    FloatEq(x, FoldBet)

\* Lines 96-112 of bet: the bet field parsed and checked.  Only ValueError
\* is caught, and its handler reads message.bet, which a mapping does not
\* have: the handler itself ends with AttributeError.
parsed_bet(min_bet, max_bet, field) ==
    LET f == float(field)
    IN  IF f.err = "ValueError"
        THEN Raise("AttributeError", "", "")
        ELSE IF f.err = "TypeError"
             THEN Raise("TypeError", "", "")
             ELSE IF is_fold(f.val)
                  THEN ReturnBet(f.val)
                  ELSE IF out_of_range(f.val, min_bet, max_bet)
                       THEN MessageFormatError("bet", "out of range")
                       ELSE ReturnBet(f.val)

\* A faulty variant of no_bet_required: the reply is always inspected.
always_required(max_bet) ==
    FALSE

\* Line 90: max_bet == -1.
no_bet_required(max_bet) ==
    max_bet = -1

\* A faulty variant of bet_reply: max_bet == -1 is looked at before the
\* msg_id of the reply.
bet_reply_before_validation(min_bet, max_bet, message) ==
    IF no_bet_required(max_bet)
    THEN ReturnBet(Num(-1))
    ELSE LET v == validate_msg_id(message, "bet")
         IN  IF v.kind = "raise"
             THEN v
             ELSE IF message.bet.t = "absent"
                  THEN MessageFormatError("bet", "missing")
                  ELSE parsed_bet(min_bet, max_bet, message.bet)

\* Lines 87-112 of bet: what the first message that is not a ping makes the
\* operation return or raise.
bet_reply(min_bet, max_bet, message) ==
    LET v == validate_msg_id(message, "bet")
    IN  IF v.kind = "raise"
        THEN v
        ELSE IF no_bet_required(max_bet)
             THEN ReturnBet(Num(-1))
             ELSE IF message.bet.t = "absent"
                  THEN MessageFormatError("bet", "missing")
                  ELSE parsed_bet(min_bet, max_bet, message.bet)

----------------------------------------------------------------------------
(* The collaborators: the participant record, the scores, the channel *)

\* The hand dealt in deal d: HandSize distinct cards.
Hand(d) == [i \in 1..HandSize |-> 10 * d + i]

\* Score.cmp: positive when the other score ranks above this one, zero on a
\* tie, negative when it ranks below.
cmp(this, other) ==
    IF other > this THEN 1 ELSE IF other = this THEN 0 ELSE -1

\* An outbound message.
NoOut ==
    [msg_id |-> NoField, cards |-> << >>, score |-> 0, allowed_to_open |-> FALSE,
     timeout |-> NoDeadline, min_bet |-> 0, max_bet |-> 0, opening |-> FALSE]
NoMessage == Message(NoField, AbsentBet, AbsentCards, 0)

\* One call on a channel: send_message(out), recv_message(deadline) that
\* returned msg, or close().  failed: the call raised, and err is what it
\* raised.
Call(a, ch, o, m, d, e) ==
    [act |-> a, ch |-> ch, out |-> o, msg |-> m, deadline |-> d,
     failed |-> e # "", err |-> e]

Sent(out, f) ==
    Call("send", channel, out, NoMessage, NoDeadline, IF f THEN "ChannelError" ELSE "")
Recv(message, deadline) == Call("recv", channel, NoOut, message, deadline, "")
RecvRaised(deadline, e) == Call("recv", channel, NoOut, NoMessage, deadline, e)
Closed(f) ==
    Call("close", channel, NoOut, NoMessage, NoDeadline, IF f THEN "Exception" ELSE "")

\* A faulty variant of propagates: the error of the channel is reported as a
\* malformed message.
converted_to_format_error(call) ==
    MessageFormatError("", "")

\* An error raised by a channel call of set_cards, change_cards or bet: no
\* except clause of theirs names ChannelError or MessageTimeout (line 66
\* catches TypeError and IndexError, line 111 ValueError), so the caller gets
\* the error the channel raised.
propagates(call) ==
    Raise(call.err, "", "")

\* The operation called and its arguments.
NoArgs ==
    [op |-> "", min_bet |-> 0, max_bet |-> 0, opening |-> FALSE,
     timeout |-> NoDeadline, pong |-> FALSE, min_opening_score |-> 0,
     new_channel |-> 0]
Args(op) == [NoArgs EXCEPT !.op = op]

Init ==
    /\ channel = 1
    /\ closed = {}
    /\ inbox = [c \in Channels |-> << >>]
    /\ cards = << >>
    /\ score = 0
    /\ allowed_to_open = FALSE
    /\ money = 1
    /\ pc = "idle"
    /\ args = NoArgs
    /\ result = NoOutcome
    /\ oplog = << >>
    /\ requests = 0
    /\ now = 0

\* An operation ends: it returns or raises r, having made the calls of log.
Ends(r, log) ==
    /\ pc' = "idle"
    /\ result' = r
    /\ oplog' = log

\* An operation reaches a recv_message, having made the calls of log.
Waits(at, log) ==
    /\ pc' = at
    /\ result' = NoOutcome
    /\ oplog' = log

record == <<cards, score, allowed_to_open, money>>

----------------------------------------------------------------------------
(* The operations *)

\* A faulty variant of opening_allowed: a tie does not open.
opening_strictly_above(min_opening_score, new_score) ==
    cmp(min_opening_score, new_score) > 0

\* Line 32: min_opening_score.cmp(self.get_score()) >= 0.
opening_allowed(min_opening_score, new_score) ==
    cmp(min_opening_score, new_score) >= 0

\* A faulty variant of set_cards: when the send fails, the record is left as
\* it was before the call.
set_cards_rolls_back(new_cards, new_score, min_opening_score) ==
    /\ pc = "idle"
    /\ args' = [Args("set_cards") EXCEPT !.min_opening_score = min_opening_score]
    /\ LET out == [NoOut EXCEPT !.msg_id = "set-cards", !.cards = new_cards,
                                !.score = new_score,
                                !.allowed_to_open =
                                    opening_allowed(min_opening_score, new_score)]
       IN  \/ /\ Ends(ReturnNone, <<Sent(out, FALSE)>>)
              /\ cards' = new_cards
              /\ score' = new_score
              /\ allowed_to_open' = out.allowed_to_open
           \/ /\ Ends(propagates(Sent(out, TRUE)), <<Sent(out, TRUE)>>)
              /\ UNCHANGED <<cards, score, allowed_to_open>>
    /\ UNCHANGED <<channel, closed, inbox, money, requests, now>>

\* set_cards(cards, score, min_opening_score): the record is updated, then
\* the set-cards message is sent; the send returns or raises ChannelError.
set_cards(new_cards, new_score, min_opening_score) ==
    /\ pc = "idle"
    /\ args' = [Args("set_cards") EXCEPT !.min_opening_score = min_opening_score]
    /\ cards' = new_cards
    /\ score' = new_score
    /\ allowed_to_open' = opening_allowed(min_opening_score, new_score)
    /\ LET out == [NoOut EXCEPT !.msg_id = "set-cards", !.cards = new_cards,
                                !.score = new_score,
                                !.allowed_to_open = allowed_to_open']
       IN  \/ Ends(ReturnNone, <<Sent(out, FALSE)>>)
           \/ Ends(propagates(Sent(out, TRUE)), <<Sent(out, TRUE)>>)
    /\ UNCHANGED <<channel, closed, inbox, money, requests, now>>

\* A faulty variant of recv_deadline: once a ping has been skipped, the next
\* receive waits without a deadline.
deadline_dropped_after_ping(timeout, log) ==
    IF \E i \in DOMAIN log : log[i].act = "recv" THEN NoDeadline ELSE timeout

\* Lines 45 and 80, recv_message(timeout=timeout): every receive of the loop
\* is given the caller's deadline.
recv_deadline(timeout, log) ==
    timeout

\* change_cards(timeout), up to its first recv_message: nothing is sent.
change_cards(timeout) ==
    /\ pc = "idle"
    /\ args' = [Args("change_cards") EXCEPT !.timeout = timeout]
    /\ Waits("change_cards", << >>)
    /\ UNCHANGED <<channel, closed, inbox, record, requests, now>>

\* A faulty variant of is_ping: a ping leaves the loop like any other message.
ping_not_skipped(message) ==
    FALSE

\* Lines 48 and 83: message["msg_id"] != "ping" leaves the loop.
is_ping(message) ==
    message.msg_id = "ping"

\* Lines 44-67: recv_message returns the next message of the channel.
change_cards_recv ==
    /\ pc = "change_cards"
    /\ inbox[channel] # << >>
    /\ LET message == Head(inbox[channel])
           log == Append(oplog, Recv(message, recv_deadline(args.timeout, oplog)))
       IN  /\ inbox' = [inbox EXCEPT ![channel] = Tail(@)]
           /\ IF message.msg_id = NoField
              THEN Ends(MessageFormatError("msg_id", "missing"), log)
              ELSE IF is_ping(message)
                   THEN Waits("change_cards", log)
                   ELSE Ends(change_cards_reply(cards, message), log)
    /\ UNCHANGED <<channel, closed, record, args, requests, now>>

\* bet(min_bet, max_bet, opening, timeout), up to its first recv_message:
\* the bet request is sent; a ChannelError of the send ends the operation.
bet(min_bet, max_bet, opening, timeout) ==
    /\ pc = "idle"
    /\ requests < MaxTurns
    /\ args' = [Args("bet") EXCEPT !.min_bet = min_bet, !.max_bet = max_bet,
                                   !.opening = opening, !.timeout = timeout]
    /\ LET out == [NoOut EXCEPT !.msg_id = "bet", !.timeout = timeout,
                                !.min_bet = min_bet, !.max_bet = max_bet,
                                !.opening = opening]
       IN  \/ /\ Waits("bet", <<Sent(out, FALSE)>>)
              /\ requests' = requests + 1
           \/ /\ Ends(propagates(Sent(out, TRUE)), <<Sent(out, TRUE)>>)
              /\ requests' = requests
    /\ UNCHANGED <<channel, closed, inbox, record, now>>

\* A faulty variant of bet_recv: a returned bet is taken from the balance.
bet_recv_takes_money ==
    /\ pc = "bet"
    /\ inbox[channel] # << >>
    /\ LET message == Head(inbox[channel])
           log == Append(oplog, Recv(message, recv_deadline(args.timeout, oplog)))
       IN  /\ inbox' = [inbox EXCEPT ![channel] = Tail(@)]
           /\ IF message.msg_id = NoField
              THEN Ends(MessageFormatError("msg_id", "missing"), log)
              ELSE IF is_ping(message)
                   THEN Waits("bet", log)
                   ELSE Ends(bet_reply(args.min_bet, args.max_bet, message), log)
           /\ money' = IF result'.kind = "return" THEN money - 1 ELSE money
    /\ UNCHANGED <<channel, closed, cards, score, allowed_to_open, args, requests, now>>

\* Lines 79-112: recv_message returns the next message of the channel.
bet_recv ==
    /\ pc = "bet"
    /\ inbox[channel] # << >>
    /\ LET message == Head(inbox[channel])
           log == Append(oplog, Recv(message, recv_deadline(args.timeout, oplog)))
       IN  /\ inbox' = [inbox EXCEPT ![channel] = Tail(@)]
           /\ IF message.msg_id = NoField
              THEN Ends(MessageFormatError("msg_id", "missing"), log)
              ELSE IF is_ping(message)
                   THEN Waits("bet", log)
                   ELSE Ends(bet_reply(args.min_bet, args.max_bet, message), log)
    /\ UNCHANGED <<channel, closed, record, args, requests, now>>

\* recv_message(timeout) of change_cards or bet raises MessageTimeout: the
\* deadline has passed.  The error reaches the caller.
recv_timeout ==
    /\ pc \in {"change_cards", "bet"}
    /\ recv_deadline(args.timeout, oplog) # NoDeadline
    /\ now >= recv_deadline(args.timeout, oplog)
    /\ LET call == RecvRaised(recv_deadline(args.timeout, oplog), "MessageTimeout")
       IN  Ends(propagates(call), Append(oplog, call))
    /\ UNCHANGED <<channel, closed, inbox, record, args, requests, now>>

\* recv_message(timeout) of change_cards or bet raises ChannelError.
recv_error ==
    /\ pc \in {"change_cards", "bet"}
    /\ LET call == RecvRaised(recv_deadline(args.timeout, oplog), "ChannelError")
       IN  Ends(propagates(call), Append(oplog, call))
    /\ UNCHANGED <<channel, closed, inbox, record, args, requests, now>>

\* A faulty variant of disconnect: what close() raises reaches the caller.
disconnect_raises ==
    /\ pc = "idle"
    /\ args' = Args("disconnect")
    /\ \/ Ends(ReturnNone, <<Closed(FALSE)>>)
       \/ Ends(propagates(Closed(TRUE)), <<Closed(TRUE)>>)
    /\ closed' = closed \cup {channel}
    /\ UNCHANGED <<channel, inbox, record, requests, now>>

\* disconnect(): self._channel.close(); whatever close() raises is swallowed.
disconnect ==
    /\ pc = "idle"
    /\ args' = Args("disconnect")
    /\ \E close_raised \in BOOLEAN : Ends(ReturnNone, <<Closed(close_raised)>>)
    /\ closed' = closed \cup {channel}
    /\ UNCHANGED <<channel, inbox, record, requests, now>>

\* A faulty variant of update_channel: the reference is not replaced.
update_channel_keeps_old(new_channel) ==
    /\ pc = "idle"
    /\ args' = [Args("update_channel") EXCEPT !.new_channel = new_channel]
    /\ Ends(ReturnNone, << >>)
    /\ UNCHANGED <<channel, closed, inbox, record, requests, now>>

\* update_channel(channel).
update_channel(new_channel) ==
    /\ pc = "idle"
    /\ args' = [Args("update_channel") EXCEPT !.new_channel = new_channel]
    /\ channel' = new_channel
    /\ Ends(ReturnNone, << >>)
    /\ UNCHANGED <<closed, inbox, record, requests, now>>

\* A faulty variant of ping_failed: the handler returns False without
\* disconnecting.
ping_failed_no_disconnect(log) ==
    /\ Ends(ReturnBool(FALSE), log)
    /\ closed' = closed

\* Lines 121-124, the except clause of ping: disconnect, return False.
ping_failed(log) ==
    /\ \E close_raised \in BOOLEAN :
          Ends(ReturnBool(FALSE), Append(log, Closed(close_raised)))
    /\ closed' = closed \cup {channel}

\* A faulty variant of ping: a reply is awaited whatever pong is.
ping_always_waits(pong) ==
    /\ pc = "idle"
    /\ LET out == [NoOut EXCEPT !.msg_id = "ping"]
           called(deadline) ==
               [Args("ping") EXCEPT !.pong = pong, !.timeout = deadline]
       IN  \/ /\ ping_failed(<<Sent(out, TRUE)>>)
              /\ args' = called(NoDeadline)
           \/ /\ Waits("ping", <<Sent(out, FALSE)>>)
              /\ args' = called(now + PingWait)
              /\ closed' = closed
    /\ UNCHANGED <<channel, inbox, record, requests, now>>

\* ping(pong), up to its recv_message: the ping is sent.
ping(pong) ==
    /\ pc = "idle"
    /\ LET out == [NoOut EXCEPT !.msg_id = "ping"]
           called(deadline) ==
               [Args("ping") EXCEPT !.pong = pong, !.timeout = deadline]
       IN  \/ /\ ping_failed(<<Sent(out, TRUE)>>)
              /\ args' = called(NoDeadline)
           \/ /\ ~pong
              /\ Ends(ReturnBool(TRUE), <<Sent(out, FALSE)>>)
              /\ args' = called(NoDeadline)
              /\ closed' = closed
           \/ /\ pong
              /\ Waits("ping", <<Sent(out, FALSE)>>)
              /\ args' = called(now + PingWait)
              /\ closed' = closed
    /\ UNCHANGED <<channel, inbox, record, requests, now>>

\* Lines 118-124: the one recv_message of ping(pong=True) returns a message,
\* raises MessageTimeout once its deadline has passed, or raises ChannelError.
ping_recv ==
    /\ pc = "ping"
    /\ \/ /\ inbox[channel] # << >>
          /\ LET message == Head(inbox[channel])
                 log == Append(oplog, Recv(message, args.timeout))
             IN  /\ inbox' = [inbox EXCEPT ![channel] = Tail(@)]
                 /\ IF validate_msg_id(message, "ping").kind = "raise"
                    THEN ping_failed(log)
                    ELSE /\ Ends(ReturnBool(TRUE), log)
                         /\ closed' = closed
       \/ /\ now >= args.timeout
          /\ ping_failed(Append(oplog, RecvRaised(args.timeout, "MessageTimeout")))
          /\ inbox' = inbox
       \/ /\ ping_failed(Append(oplog, RecvRaised(args.timeout, "ChannelError")))
          /\ inbox' = inbox
    /\ UNCHANGED <<channel, record, args, requests, now>>

\* A faulty variant of try_send_message: a failed send disconnects, as in
\* ping.
try_send_message_disconnects(out) ==
    /\ pc = "idle"
    /\ args' = Args("try_send_message")
    /\ \/ /\ Ends(ReturnBool(TRUE), <<Sent(out, FALSE)>>)
          /\ closed' = closed
       \/ ping_failed(<<Sent(out, TRUE)>>)
    /\ UNCHANGED <<channel, inbox, record, requests, now>>

\* try_send_message(message): one send; ChannelError becomes False.
try_send_message(out) ==
    /\ pc = "idle"
    /\ args' = Args("try_send_message")
    /\ \E f \in BOOLEAN : Ends(ReturnBool(~f), <<Sent(out, f)>>)
    /\ UNCHANGED <<channel, closed, inbox, record, requests, now>>

----------------------------------------------------------------------------
(* The environment: the participant and the clock *)

\* The participant sends a message on a channel.
participant_sends(ch, message) ==
    /\ inbox' = [inbox EXCEPT ![ch] = Append(@, message)]
    /\ UNCHANGED <<channel, closed, record, pc, args, result, oplog, requests, now>>

\* time.time() advances.
tick ==
    /\ now' = now + 1
    /\ UNCHANGED <<channel, closed, inbox, record, pc, args, result, oplog, requests>>

----------------------------------------------------------------------------
(* Specifications *)

\* The discard exchange: a hand is dealt, change_cards is called, and the
\* participant answers with a change-cards message carrying any cards field.
KeyValues ==
    { IntKey(-(HandSize + 1)), IntKey(-1), IntKey(0), IntKey(1), IntKey(2),
      IntKey(HandSize - 1), IntKey(HandSize), StrKey }

KeyLists == UNION {[1..n -> KeyValues] : n \in 0..MaxKeys}

CardsFields == {AbsentCards, NullCards} \cup {ListCards(ks) : ks \in KeyLists}

NextCards ==
    \/ set_cards(Hand(1), 0, 0)
    \/ change_cards(NoDeadline)
    \/ change_cards_recv
    \/ /\ pc = "change_cards"
       /\ inbox[channel] = << >>
       /\ \E f \in CardsFields :
             participant_sends(channel, Message("change-cards", AbsentBet, f, 0))

SpecCards == Init /\ [][NextCards]_vars

\* The betting turn: bet is called with any bounds, and the participant
\* answers with a message carrying any msg_id and any bet field.
BetValues == (-2)..(MaxBet + 1)

BetFields ==
    {AbsentBet, NanBet, TextBet, NullBet, ListBet}
        \cup {NumBet(n) : n \in BetValues} \cup {StrBet(n) : n \in BetValues}

NextBet ==
    \/ \E min_bet \in 0..MaxBet, max_bet \in (-1)..MaxBet, opening \in BOOLEAN :
          bet(min_bet, max_bet, opening, NoDeadline)
    \/ bet_recv
    \/ /\ pc = "bet"
       /\ inbox[channel] = << >>
       /\ \E id \in {NoField, "bet", "change-cards"}, f \in BetFields :
             participant_sends(channel, Message(id, f, AbsentCards, requests))

SpecBet == Init /\ [][NextBet]_vars

\* Turns on one channel: the engine deals once and offers discard and betting
\* turns with or without a deadline; the participant sends pings, bet
\* replies and change-cards messages at any time; the clock advances.
Deadlines == {NoDeadline, 1}

TurnMessages ==
    { PingMessage,
      Message("bet", NumBet(1), AbsentCards, requests),
      Message("change-cards", AbsentBet, ListCards(<<IntKey(2), IntKey(0)>>), 0) }

Received(log) == SelectSeq(log, LAMBDA c : c.act = "recv" /\ ~c.failed)

NextTurns ==
    \/ /\ cards = << >>
       /\ set_cards(Hand(1), 0, 0)
    \/ \E t \in Deadlines : change_cards(t)
    \/ change_cards_recv
    \/ \E t \in Deadlines : bet(1, MaxBet, FALSE, t)
    \/ bet_recv
    \/ recv_timeout
    \/ recv_error
    \/ \E m \in TurnMessages :
          /\ Len(inbox[channel]) < MaxInbox
          /\ is_ping(m) =>
                pc # "idle" /\ Len(Received(oplog)) + Len(inbox[channel]) < MaxPings
          /\ participant_sends(channel, m)
    \/ /\ now < 1
       /\ tick

SpecTurns == Init /\ [][NextTurns]_vars

\* Validation: discard and betting turns answered by messages with any
\* msg_id, bet field and cards field, after any pings.
MsgIds == {NoField, "bet", "change-cards"}

SomeCardsFields ==
    { AbsentCards, NullCards, ListCards(<<IntKey(0), IntKey(2)>>),
      ListCards(<<IntKey(HandSize)>>) }

NextValidate ==
    \/ /\ cards = << >>
       /\ set_cards(Hand(1), 0, 0)
    \/ change_cards(NoDeadline)
    \/ change_cards_recv
    \/ \E max_bet \in {FoldBet, MaxBet} : bet(1, max_bet, FALSE, NoDeadline)
    \/ bet_recv
    \/ /\ pc \in {"bet", "change_cards"}
       /\ inbox[channel] = << >>
       /\ \/ /\ Len(Received(oplog)) < MaxPings
             /\ participant_sends(channel, PingMessage)
          \/ \E id \in MsgIds, b \in BetFields, c \in SomeCardsFields :
                participant_sends(channel, Message(id, b, c, 0))

SpecValidate == Init /\ [][NextValidate]_vars

\* A message the engine sends with try_send_message.
Notice == [NoOut EXCEPT !.msg_id = "notice"]

\* The lifecycle: the engine deals, pings, notifies, disconnects and installs
\* a channel; the participant sends on either channel; the clock advances.
LifeMessages ==
    {PingMessage, NoMessage, Message("bet", NumBet(1), AbsentCards, 0)}

Next ==
    \/ \E s \in 0..MaxScore, m \in 0..MaxScore : set_cards(Hand(1), s, m)
    \/ \E pong \in BOOLEAN : ping(pong)
    \/ ping_recv
    \/ disconnect
    \/ \E c \in Channels : update_channel(c)
    \/ try_send_message(Notice)
    \/ \E ch \in Channels, m \in LifeMessages :
          /\ inbox[ch] = << >>
          /\ participant_sends(ch, m)
    \/ /\ now < MaxTime
       /\ tick

Spec == Init /\ [][Next]_vars

----------------------------------------------------------------------------
(* Properties *)

\* The last call of the operation, and the message it received.
LastCall == oplog[Len(oplog)]
Replied == pc = "idle" /\ oplog # << >> /\ LastCall.act = "recv" /\ ~LastCall.failed
Reply == LastCall.msg

Ended(op) == pc = "idle" /\ args.op = op
Returned(op) == Ended(op) /\ result.kind = "return"
IsFormatError(r, a) ==
    r.kind = "raise" /\ r.err = "MessageFormatError" /\ r.attr = a

IsSlot(key) == key.t = "int" /\ key.v >= 0 /\ key.v < Len(cards)

\* C1: whatever the order and multiplicity of the keys of an accepted
\* change-cards message, the returned keys are integers in strictly ascending
\* order (so without duplicates), at most 4, and are the keys sent; the
\* returned cards are as many, the i-th being the hand's card at the i-th
\* returned key (hand[key]); a list with repeats of at most 4 distinct slots
\* is accepted; and the keys [2, 2, 0] give ([0, 2], [hand[0], hand[2]]).
C1_DiscardsNormalised ==
    /\ Returned("change_cards") =>
          LET ks == result.keys
              at(k) == IF k >= 0 THEN k + 1 ELSE Len(cards) + k + 1
          IN  /\ Len(ks) <= 4
              /\ \A i \in DOMAIN ks : ks[i].t = "int"
              /\ \A i \in DOMAIN ks : i < Len(ks) => ks[i].v < ks[i + 1].v
              /\ Range(ks) = Range(Reply.cards.keys)
              /\ Len(result.cards) = Len(ks)
              /\ \A i \in DOMAIN ks : result.cards[i] = cards[at(ks[i].v)]
    /\ ( /\ Ended("change_cards")
         /\ Replied
         /\ Reply.msg_id = "change-cards"
         /\ Reply.cards.t = "list"
         /\ \A k \in Range(Reply.cards.keys) : IsSlot(k)
         /\ Cardinality(Range(Reply.cards.keys)) <= 4 )
          => result.kind = "return"
    /\ ( /\ Ended("change_cards")
         /\ Replied
         /\ Reply.msg_id = "change-cards"
         /\ Reply.cards = ListCards(<<IntKey(2), IntKey(2), IntKey(0)>>)
         /\ Len(cards) >= 3 )
          => result = ReturnDiscards(<<IntKey(0), IntKey(2)>>, <<cards[1], cards[3]>>)

\* C1 happens: a list of MaxKeys keys, out of order and with a repeat, is
\* accepted and gives 4 keys.
C1_Witness ==
    /\ Returned("change_cards")
    /\ Len(Reply.cards.keys) = MaxKeys
    /\ Reply.cards.keys[1].v > Reply.cards.keys[2].v
    /\ Len(result.keys) = 4

\* C2: a cards field with a key that is no slot 0..len(hand)-1 of the hand, or
\* no integer, fails with MessageFormatError(attribute="cards"); so every
\* returned key is a slot and the returned cards are distinct hand positions.
C2_OnlySlotsResolved ==
    /\ ( /\ Ended("change_cards")
         /\ Replied
         /\ Reply.msg_id = "change-cards"
         /\ Reply.cards.t = "list"
         /\ \E k \in Range(Reply.cards.keys) : ~IsSlot(k) )
          => IsFormatError(result, "cards")
    /\ Returned("change_cards") =>
          /\ \A i \in DOMAIN result.keys : IsSlot(result.keys[i])
          /\ \A i, j \in DOMAIN result.cards :
                i # j => result.cards[i] # result.cards[j]

\* C3: with max_bet # -1 and a bet reply of value v # -1, bet returns exactly
\* v when min_bet <= v <= max_bet and raises MessageFormatError("bet") when
\* v < min_bet or v > max_bet; every value bet returns is -1 or a number in
\* [min_bet, max_bet].
C3_ReturnedBetInRange ==
    /\ ( /\ Ended("bet")
         /\ Replied
         /\ Reply.msg_id = "bet"
         /\ args.max_bet # -1
         /\ Reply.bet.t \in {"num", "str"}
         /\ Reply.bet.v # -1 )
          => IF args.min_bet <= Reply.bet.v /\ Reply.bet.v <= args.max_bet
             THEN result = ReturnBet(Num(Reply.bet.v))
             ELSE IsFormatError(result, "bet")
    /\ Returned("bet") =>
          /\ result.bet.k = "num"
          /\ \/ result.bet.v = -1
             \/ args.min_bet <= result.bet.v /\ result.bet.v <= args.max_bet

\* C4: a bet reply whose bet field parses to -1.0 is a fold: bet returns -1.0
\* for every min_bet and max_bet, without any range check.
C4_FoldBypassesRange ==
    ( /\ Ended("bet")
      /\ Replied
      /\ Reply.msg_id = "bet"
      /\ Reply.bet \in {NumBet(-1), StrBet(-1)} )
       => result = ReturnBet(Num(-1))

\* C4 happens: -1 is returned although it is below min_bet and a bet was
\* required.
C4_Witness ==
    /\ Returned("bet")
    /\ Replied
    /\ Reply.bet = StrBet(-1)
    /\ args.max_bet # -1
    /\ -1 < args.min_bet
    /\ result.bet = Num(-1)

\* C5: bet called with max_bet = -1 returns -1 whatever the bet field of the
\* bet reply is: missing, not numeric or out of range.
C5_NoBetRequired ==
    ( /\ Ended("bet")
      /\ Replied
      /\ Reply.msg_id = "bet"
      /\ args.max_bet = -1 )
       => result = ReturnBet(Num(-1))

\* C5 happens: max_bet = -1, a reply whose bet field is not numeric, -1
\* returned.
C5_Witness ==
    /\ Returned("bet")
    /\ Replied
    /\ args.max_bet = -1
    /\ Reply.bet \in {TextBet, NullBet, AbsentBet}
    /\ result.bet = Num(-1)

\* C9: with max_bet # -1, a bet reply whose bet field is present but not
\* numeric fails with MessageFormatError, and no other kind of error leaves
\* bet because of what a reply contains.
C9_MalformedBetIsFormatError ==
    /\ ( /\ Ended("bet")
         /\ Replied
         /\ Reply.msg_id = "bet"
         /\ args.max_bet # -1
         /\ Reply.bet.t \in {"text", "null", "list"} )
          => IsFormatError(result, "bet")
    /\ (Ended("bet") /\ Replied /\ result.kind = "raise")
          => result.err = "MessageFormatError"

\* The messages the operation has received so far, in order.
ReceivedMessages == [i \in DOMAIN Received(oplog) |-> Received(oplog)[i].msg]

\* C6: in change_cards and bet, leading pings are skipped: every message
\* received before the last one is a ping, a ping never ends the operation,
\* and the outcome for ping^n, m is the outcome for m alone, whatever n is.
C6_LeadingPingsSkipped ==
    args.op \in {"bet", "change_cards"} =>
       LET r == ReceivedMessages
       IN  /\ \A i \in DOMAIN r : i < Len(r) => r[i].msg_id = "ping"
           /\ pc # "idle" => \A i \in DOMAIN r : r[i].msg_id = "ping"
           /\ Replied =>
                 /\ Reply.msg_id # "ping"
                 /\ (args.op = "bet" /\ Reply.msg_id = "bet")
                       => result = ReturnBet(Num(1))
                 /\ (args.op = "bet" /\ Reply.msg_id # "bet")
                       => IsFormatError(result, "msg_id")
                 /\ (args.op = "change_cards" /\ Reply.msg_id = "change-cards")
                       => IF cards = << >>
                          THEN IsFormatError(result, "cards")
                          ELSE result = ReturnDiscards(<<IntKey(0), IntKey(2)>>,
                                                       <<cards[1], cards[3]>>)
                 /\ (args.op = "change_cards" /\ Reply.msg_id # "change-cards")
                       => IsFormatError(result, "msg_id")

\* C6 happens: bet returns the bet of a reply that came after MaxPings pings.
C6_Witness ==
    /\ Returned("bet")
    /\ Replied
    /\ Len(ReceivedMessages) = MaxPings + 1
    /\ ReceivedMessages[1].msg_id = "ping"
    /\ result.bet = Num(1)

\* The calls of the operation are a send, then perhaps a recv, then perhaps
\* a close.
SendFailed == oplog # << >> /\ oplog[1].act = "send" /\ oplog[1].failed
RecvFailed == Len(oplog) >= 2 /\ oplog[2].act = "recv" /\ oplog[2].failed
MalformedPong ==
    /\ Len(oplog) >= 2
    /\ oplog[2].act = "recv"
    /\ ~oplog[2].failed
    /\ oplog[2].msg.msg_id # "ping"
Disconnected ==
    /\ LastCall.act = "close"
    /\ LastCall.ch = channel
    /\ channel \in closed

\* C7: ping(pong=true) never raises.  When the send fails, when the receive
\* raises (MessageTimeout at the deadline, ChannelError) and when the reply
\* has no msg_id or another one than "ping", it returns false and close() has
\* been called on the current channel.  It returns true only when the send
\* succeeded and the one message received has msg_id "ping".
C7_PingNeverRaises ==
    (Ended("ping") /\ args.pong) =>
       /\ result.kind = "return"
       /\ (SendFailed \/ RecvFailed \/ MalformedPong)
             => ~result.ok /\ Disconnected
       /\ result.ok =>
             /\ ~oplog[1].failed
             /\ Len(ReceivedMessages) = 1
             /\ ReceivedMessages[1].msg_id = "ping"
             /\ Len(oplog) = 2

\* C7 happens: the receive of ping(pong=true) times out at its deadline.
C7_Witness ==
    /\ Ended("ping")
    /\ args.pong
    /\ RecvFailed
    /\ now >= args.timeout
    /\ ~result.ok
    /\ Disconnected

\* C8: after set_cards, allowed_to_open is true exactly when the new score
\* ranks at or above the minimum opening score, and the set-cards message
\* carries that value.
C8_AllowedToOpen ==
    Ended("set_cards") =>
       /\ allowed_to_open = (score >= args.min_opening_score)
       /\ oplog[1].act = "send"
       /\ oplog[1].out.msg_id = "set-cards"
       /\ oplog[1].out.allowed_to_open = allowed_to_open

\* C8 happens: a hand scoring below the minimum opening score.
C8_Witness ==
    /\ Ended("set_cards")
    /\ score < args.min_opening_score
    /\ ~allowed_to_open
    /\ ~oplog[1].out.allowed_to_open
    /\ ~oplog[1].failed

\* C10: a reply the participant sent in answer to an earlier bet request,
\* whose turn has ended, is never returned by a later bet as its bet.
C10_StaleReplyRejected ==
    (Returned("bet") /\ Replied /\ Reply.msg_id = "bet")
       => ~(Reply.re >= 1 /\ Reply.re < requests)

----------------------------------------------------------------------------
(* Deadlines *)

\* A channel that raises MessageTimeout once the deadline of a receive has
\* passed: a receive returns a message only before its deadline.
BeforeDeadline ==
    LET d == recv_deadline(args.timeout, oplog)
    IN  d = NoDeadline \/ now < d

\* Turns on such a channel.
NextDeadline ==
    \/ \E t \in Deadlines : change_cards(t)
    \/ /\ BeforeDeadline
       /\ change_cards_recv
    \/ \E t \in Deadlines : bet(1, MaxBet, FALSE, t)
    \/ /\ BeforeDeadline
       /\ bet_recv
    \/ recv_timeout
    \/ recv_error
    \/ \E m \in TurnMessages :
          /\ Len(inbox[channel]) < MaxInbox
          /\ is_ping(m) =>
                pc # "idle" /\ Len(Received(oplog)) + Len(inbox[channel]) < MaxPings
          /\ participant_sends(channel, m)
    \/ /\ now < 1
       /\ tick

SpecDeadline == Init /\ [][NextDeadline]_vars

\* C11: every receive of bet and change_cards, the first and each one after a
\* skipped ping, is given the deadline D of the call; so on a channel that
\* raises MessageTimeout once D has passed, a receive issued at or after D
\* ends the operation with an error, however many pings were skipped; and with
\* no deadline no receive raises MessageTimeout.
C11_SameAbsoluteDeadline ==
    [][ (pc \in {"bet", "change_cards"} /\ oplog' # oplog) =>
           LET call == oplog'[Len(oplog')]
           IN  /\ Len(oplog') = Len(oplog) + 1
               /\ call.act = "recv"
               /\ call.deadline = args.timeout
               /\ (args.timeout # NoDeadline /\ now >= args.timeout)
                     => call.failed /\ pc' = "idle" /\ result'.kind = "raise"
               /\ args.timeout = NoDeadline => result'.err # "MessageTimeout" ]_vars

\* C11 happens: a turn with a deadline ends with MessageTimeout after
\* MaxPings pings were skipped.
C11_Witness ==
    /\ Ended("bet")
    /\ args.timeout # NoDeadline
    /\ now >= args.timeout
    /\ result.err = "MessageTimeout"
    /\ Len(ReceivedMessages) = MaxPings
    /\ \A i \in DOMAIN ReceivedMessages : ReceivedMessages[i].msg_id = "ping"

----------------------------------------------------------------------------
(* The channel reference *)

\* Every operation, on either channel: the engine deals, offers discard and
\* betting turns, pings, notifies, disconnects and installs a channel; the
\* participant sends one message at a time on either channel.
OpsMessages ==
    { PingMessage,
      NoMessage,
      Message("bet", NumBet(1), AbsentCards, 0),
      Message("bet", NullBet, AbsentCards, 0),
      Message("change-cards", AbsentBet, ListCards(<<IntKey(2), IntKey(0)>>), 0),
      Message("change-cards", AbsentBet, ListCards(<<IntKey(HandSize)>>), 0) }

NextOps ==
    \/ set_cards(Hand(1), 0, 0)
    \/ change_cards(NoDeadline)
    \/ change_cards_recv
    \/ bet(1, MaxBet, FALSE, NoDeadline)
    \/ bet_recv
    \/ recv_error
    \/ \E pong \in BOOLEAN : ping(pong)
    \/ ping_recv
    \/ disconnect
    \/ \E c \in Channels : update_channel(c)
    \/ try_send_message(Notice)
    \/ \E ch \in Channels, m \in OpsMessages :
          /\ inbox[ch] = << >>
          /\ is_ping(m) => Len(Received(oplog)) < MaxPings
          /\ participant_sends(ch, m)

SpecOps == Init /\ [][NextOps]_vars

\* A step of update_channel.
UpdateChannelStep ==
    /\ pc = "idle"
    /\ args'.op = "update_channel"
    /\ <<channel, args, result, oplog>>' # <<channel, args, result, oplog>>

\* C12: update_channel(c2) sends nothing, receives nothing and does not close
\* the old channel; it alone replaces the reference; and every send, receive
\* and close of an operation is made on the channel the adapter refers to,
\* so after update_channel(c2) on c2 and on no other channel.
C12_CallsGoToCurrentChannel ==
    [][ /\ UpdateChannelStep =>
              /\ channel' = args'.new_channel
              /\ oplog' = << >>
              /\ closed' = closed
              /\ inbox' = inbox
        /\ channel' # channel => UpdateChannelStep
        /\ \A i \in DOMAIN oplog' : oplog'[i].ch = channel'
        /\ \A c \in Channels : inbox'[c] # inbox[c] /\ c # channel
                                  => Len(inbox'[c]) > Len(inbox[c])
        /\ closed' \subseteq closed \cup {channel} ]_vars

\* C12 happens: after update_channel(2), ping(pong=true) has sent, received
\* and closed on channel 2, and channel 1 is neither read nor closed.
C12_Witness ==
    /\ channel = 2
    /\ Ended("ping")
    /\ Len(oplog) = 3
    /\ \A i \in DOMAIN oplog : oplog[i].ch = 2
    /\ inbox[1] # << >>
    /\ closed = {2}

----------------------------------------------------------------------------
(* Errors of the channel in change_cards and bet *)

TurnOps == {"bet", "change_cards"}
ChannelErrors == {"ChannelError", "MessageTimeout"}

\* C13: when a bet or a change_cards has ended on a channel call that raised
\* (the receive with MessageTimeout or ChannelError, or the send of bet with
\* ChannelError), its result is a raised error of that same kind, neither a
\* MessageFormatError nor a returned value, the operation has made no close
\* call, and no step of a bet or change_cards changes the set of closed
\* channels.
C13_ChannelErrorsPropagate ==
    [][ /\ (pc' = "idle" /\ args'.op \in TurnOps /\ oplog' # << >>
              /\ oplog'[Len(oplog')].failed)
           => LET call == oplog'[Len(oplog')]
              IN  /\ call.err \in ChannelErrors
                  /\ call.act = "send" => call.err = "ChannelError"
                  /\ result'.kind = "raise"
                  /\ result'.err = call.err
                  /\ \A i \in DOMAIN oplog' : oplog'[i].act # "close"
        /\ (pc \in TurnOps \/ args'.op \in TurnOps) => closed' = closed ]_vars

\* A bet whose receive raised MessageTimeout after a skipped ping.
C13_Witness ==
    /\ Ended("bet")
    /\ Len(oplog) = 3
    /\ LastCall.act = "recv"
    /\ LastCall.err = "MessageTimeout"
    /\ result.err = "MessageTimeout"
    /\ is_ping(oplog[2].msg)

----------------------------------------------------------------------------
(* try_send_message *)

\* C14: try_send_message(m) ends at once with exactly one call, a send of m
\* on the current channel; it returns true when the send succeeded and false
\* when it raised ChannelError; it never raises, makes no close call and
\* leaves the set of closed channels and the channel reference unchanged.
C14_TrySendReturnsBool ==
    [][ args'.op = "try_send_message" =>
           /\ pc' = "idle"
           /\ Len(oplog') = 1
           /\ oplog'[1].act = "send"
           /\ oplog'[1].ch = channel'
           /\ oplog'[1].out = Notice
           /\ oplog'[1].err \in {"", "ChannelError"}
           /\ result' = ReturnBool(~oplog'[1].failed)
           /\ closed' = closed
           /\ channel' = channel ]_vars

\* A try_send_message whose send failed on a channel that stays open.
C14_Witness ==
    /\ Ended("try_send_message")
    /\ oplog[1].failed
    /\ result = ReturnBool(FALSE)
    /\ channel \notin closed

----------------------------------------------------------------------------
(* msg_id validation *)

Expected(op) == IF op = "bet" THEN "bet" ELSE "change-cards"

\* C15: when a bet or a change_cards has ended on a received message, every
\* message received before it was a ping and, whatever the bet and cards
\* fields of the message hold: with no msg_id the result is
\* MessageFormatError(attribute = "msg_id"); with a msg_id other than the
\* expected one ("bet" / "change-cards") the result is a MessageFormatError;
\* and a bet with max_bet = -1 returns -1 only on a message with msg_id "bet".
C15_MsgIdValidatedFirst ==
    \A op \in TurnOps :
       (Ended(op) /\ Replied) =>
          /\ \A i \in 1..(Len(ReceivedMessages) - 1) : is_ping(ReceivedMessages[i])
          /\ Reply.msg_id = NoField => IsFormatError(result, "msg_id")
          /\ Reply.msg_id # Expected(op) =>
                result.kind = "raise" /\ result.err = "MessageFormatError"
          /\ (op = "bet" /\ args.max_bet = -1 /\ result.kind = "return") =>
                Reply.msg_id = "bet" /\ result = ReturnBet(Num(-1))

\* A bet with max_bet = -1 answered, after a ping, by a change-cards message
\* that carries a valid bet.
C15_Witness ==
    /\ Ended("bet")
    /\ args.max_bet = -1
    /\ Replied
    /\ Len(ReceivedMessages) = 2
    /\ Reply.msg_id = "change-cards"
    /\ Reply.bet = NumBet(1)
    /\ IsFormatError(result, "msg_id")

----------------------------------------------------------------------------
(* The sends and receives of an operation *)

Sends == SelectSeq(oplog, LAMBDA c : c.act = "send")
Recvs == SelectSeq(oplog, LAMBDA c : c.act = "recv")

\* One message with the given msg_id is sent, as the first call.
SendsOne(id) ==
    /\ Len(Sends) = 1
    /\ oplog[1].act = "send"
    /\ oplog[1].out.msg_id = id

\* At every point of every operation: at most one message has been sent, and
\* it was sent before any receive; set_cards sends one set-cards message and
\* receives nothing; change_cards sends nothing; bet sends one bet request
\* and issues no receive when that send failed; ping(pong=false) sends one
\* ping and receives nothing.
SendsBeforeReceives ==
    /\ Len(Sends) <= 1
    /\ Len(Sends) = 1 => oplog[1].act = "send"
    /\ args.op = "set_cards" => SendsOne("set-cards") /\ Recvs = << >>
    /\ args.op = "change_cards" => Sends = << >>
    /\ args.op = "bet" =>
          /\ SendsOne("bet")
          /\ oplog[1].failed => Recvs = << >> /\ pc = "idle"
    /\ (args.op = "ping" /\ ~args.pong) => SendsOne("ping") /\ Recvs = << >>
    /\ (args.op = "ping" /\ args.pong) =>
          /\ SendsOne("ping")
          /\ pc = "ping" => Recvs = << >>

\* C16 as stated: the above, and a ping(pong=true) that has ended has issued
\* exactly one receive.
C16_PongAlwaysReceives ==
    /\ SendsBeforeReceives
    /\ (Ended("ping") /\ args.pong) => Len(Recvs) = 1

\* C16, amended: the above, and a ping(pong=true) that has ended has issued
\* exactly one receive when its send succeeded, and none when its send
\* failed.
C16_OneSendThenReceives ==
    /\ SendsBeforeReceives
    /\ (Ended("ping") /\ args.pong) =>
          Len(Recvs) = (IF oplog[1].failed THEN 0 ELSE 1)

\* A ping(pong=true) whose send succeeded and whose one receive returned.
C16_Witness ==
    /\ Ended("ping")
    /\ args.pong
    /\ Len(oplog) = 2
    /\ oplog[1].act = "send"
    /\ oplog[2].act = "recv"
    /\ result = ReturnBool(TRUE)

----------------------------------------------------------------------------
(* The messages a turn consumes *)

\* C17: a step of a bet or a change_cards that consumes a message consumes
\* the head of the current channel and nothing else; when that message is a
\* ping the operation goes on, and when it is not (also when it has no
\* msg_id) the operation ends with a returned value or a raised
\* MessageFormatError, leaving the messages queued behind it; and once the
\* operation has ended no message is consumed.
C17_OnlyPingsSkipped ==
    [][ /\ \A c \in Channels :
              Len(inbox'[c]) < Len(inbox[c]) =>
                 /\ c = channel
                 /\ pc \in TurnOps
                 /\ inbox'[c] = Tail(inbox[c])
                 /\ IF is_ping(Head(inbox[c]))
                    THEN pc' = pc
                    ELSE /\ pc' = "idle"
                         /\ \/ result'.kind = "return"
                            \/ /\ result'.kind = "raise"
                               /\ result'.err = "MessageFormatError"
        /\ pc = "idle" => \A c \in Channels : Len(inbox'[c]) >= Len(inbox[c]) ]_vars

----------------------------------------------------------------------------
(* After a disconnect *)

\* C18: disconnect makes one close call on the current channel and returns,
\* also when close() raised, and leaves the channel reference unchanged; a
\* ping that returned false leaves the reference on the channel it closed;
\* and while the reference is a closed channel, every step but an
\* update_channel keeps it so and every call of every operation is addressed
\* to that closed channel.
C18_ClosedChannelStaysReferenced ==
    [][ /\ args'.op = "disconnect" =>
              /\ pc' = "idle"
              /\ result' = ReturnNone
              /\ Len(oplog') = 1
              /\ oplog'[1].act = "close"
              /\ oplog'[1].ch = channel
              /\ channel' = channel
              /\ channel \in closed'
        /\ (pc' = "idle" /\ args'.op = "ping" /\ result' = ReturnBool(FALSE)) =>
              /\ channel' = channel
              /\ channel \in closed'
        /\ (channel \in closed /\ ~UpdateChannelStep) =>
              /\ channel' = channel
              /\ channel \in closed'
              /\ \A i \in DOMAIN oplog' : oplog'[i].ch = channel ]_vars

\* A bet waits for its reply on channel 2, which is closed.
C18_Witness ==
    /\ pc = "bet"
    /\ channel = 2
    /\ closed = {2}
    /\ oplog[1].act = "send"
    /\ oplog[1].ch = 2

----------------------------------------------------------------------------
(* set_cards whose send fails *)

\* C19: when the send of set_cards has failed, the operation has raised
\* ChannelError and the record holds the new values: the hand and the score
\* of the set-cards message it tried to send, and allowed_to_open computed
\* from that score.
C19_RecordUpdatedBeforeSend ==
    (Ended("set_cards") /\ oplog[1].failed) =>
       /\ result = Raise("ChannelError", "", "")
       /\ Len(oplog) = 1
       /\ oplog[1].out.msg_id = "set-cards"
       /\ cards = oplog[1].out.cards
       /\ cards = Hand(1)
       /\ score = oplog[1].out.score
       /\ allowed_to_open = oplog[1].out.allowed_to_open
       /\ allowed_to_open = (score >= args.min_opening_score)

\* A set_cards whose send failed, with the new hand and score in the record.
C19_Witness ==
    /\ Ended("set_cards")
    /\ oplog[1].failed
    /\ result.err = "ChannelError"
    /\ cards = Hand(1)
    /\ score = MaxScore
    /\ allowed_to_open

----------------------------------------------------------------------------
(* The participant record *)

\* C20: a step that changes the participant record (hand, score, balance,
\* allowed_to_open) is the call of set_cards, and it leaves the balance as it
\* is: no step of change_cards, bet, ping, try_send_message, disconnect or
\* update_channel changes the record, whether the operation returns or
\* raises and whatever message it receives.
C20_OnlySetCardsChangesRecord ==
    [][ record' # record =>
           /\ pc = "idle"
           /\ pc' = "idle"
           /\ args'.op = "set_cards"
           /\ money' = money ]_vars

\* A change_cards has returned the discards and the hand is still whole.
C20_Witness ==
    /\ Returned("change_cards")
    /\ result.cards = <<cards[1], cards[3]>>
    /\ cards = Hand(1)

====
